---- MODULE Spec2Model ----
(***************************************************************************)
(* A model of pyrus-mcp: the retrying executor (HttpClient.execute), the   *)
(* authenticated API client (PyrusClient) and the tool-call handler of the *)
(* MCP server.                                                             *)
(*                                                                         *)
(* Seven specifications share the module:                                  *)
(*   SpecExec        one execute() call around an arbitrary operation      *)
(*   Spec            one PyrusClient, its operations called one at a time  *)
(*   SpecConcurrent  one PyrusClient with two callers interleaved          *)
(*   SpecLive        one PyrusClient under the fairness of the event loop  *)
(*   SpecTool        the CallToolRequestSchema handler of the MCP server   *)
(*   SpecOps         the requests and results of single client operations  *)
(*   SpecSetup       the client's constructor and the Logger               *)
(***************************************************************************)
EXTENDS Integers, Sequences, FiniteSets, TLC

VARIABLES
    now,        \* Date.now(), in milliseconds
    \* ---- one HttpClient.execute call (SpecExec)
    xpc,        \* position of the call: idle, awaitOp, sleeping, returned, threw
    xctx,       \* the context argument
    xattempt,   \* the loop variable attempt
    xcalls,     \* how often operation() has been invoked
    xhist,      \* what each finished attempt rejected with, in order
    xout,       \* the value returned or thrown by execute
    xlogs,      \* the calls execute made to its logger, in order
    xsleeps,    \* the delays passed to sleep(), in order
    xsleepAt,   \* Date.now() when the last sleep began
    xwakeAt,    \* the instant the pending setTimeout fires
    xinvokedAt, \* Date.now() when operation() was last invoked
    \* ---- one PyrusClient (Spec)
    accessToken,   \* PyrusClient.accessToken
    tokenExpires,  \* PyrusClient.tokenExpires
    profileCache,  \* PyrusClient.profileCache
    tokenSetAt,    \* history: Date.now() when accessToken was last assigned
    authHist,      \* history: the authentication exchange that completed last
    profileHist,   \* history: the GET /profile fetches that have completed
    proc,          \* the client operations in flight, one record per caller
    \* ---- the MCP server's tool-call handler (SpecTool)
    pyrusClient,   \* PyrusMCPServer.pyrusClient: "null" or "client"
    constructed,   \* history: how often new PyrusClient(config) has run
    envLogin,      \* whether process.env.PYRUS_LOGIN is set
    envToken,      \* whether process.env.PYRUS_API_TOKEN is set
    tpc,           \* position of the handler: idle, awaitClient, returned, threw
    tname,         \* request.params.name
    terr,          \* what the awaited client operation threw
    tout,          \* what the handler returned, or the McpError it threw
    \* ---- one call of a client operation that derives its result (SpecOps)
    lists,         \* the catalog getLists() resolves with
    task,          \* the task GET /tasks/{id} answers with
    args,          \* the arguments of the call
    ucall,         \* the operation that was called, "none" before the call
    ureq,          \* the request the call handed to axios
    uret,          \* the value the call resolved with
    config,        \* the PyrusConfig the client was constructed with
    baseUrl,       \* PyrusClient.baseUrl
    authUrl,       \* PyrusClient.authUrl
    level,         \* Logger.level
    logged,        \* the arguments of the last call of a Logger method
    emitted        \* what that call wrote to the console

xvars == <<xpc, xctx, xattempt, xcalls, xhist, xout, xlogs, xsleeps, xsleepAt,
           xwakeAt, xinvokedAt>>

cvars == <<accessToken, tokenExpires, profileCache, tokenSetAt, authHist,
           profileHist, proc>>

tvars == <<pyrusClient, constructed, envLogin, envToken, tpc, tname, terr, tout>>

kvars == <<config, baseUrl, authUrl, level, logged, emitted>>

uvars == <<lists, task, args, ucall, ureq, uret, kvars>>

vars == <<now, xvars, cvars, tvars, uvars>>

(***************************************************************************)
(* Values.  Every JavaScript value the model handles is a record with the  *)
(* fields kind, code, status and message; NoCode, NoStatus and NoMessage   *)
(* stand for a property that reads as undefined.                           *)
(***************************************************************************)
NoCode == "undefined"

NoStatus == 0

NoMessage == <<>>

\* the decimal digits of a natural number, as characters
DigitChar == <<"0", "1", "2", "3", "4", "5", "6", "7", "8", "9">>

RECURSIVE Digits(_)
Digits(n) ==
    IF n < 10 THEN <<DigitChar[n + 1]>>
    ELSE Digits(n \div 10) \o <<DigitChar[(n % 10) + 1]>>

\* "Request failed with status code "
RequestFailedText ==
    <<"R","e","q","u","e","s","t"," ","f","a","i","l","e","d"," ","w","i","t",
      "h"," ","s","t","a","t","u","s"," ","c","o","d","e"," ">>

\* an AxiosError for a response with the given status
HttpError(s) ==
    [kind |-> "AxiosError",
     code |-> IF s >= 500 THEN "ERR_BAD_RESPONSE" ELSE "ERR_BAD_REQUEST",
     status |-> s, message |-> RequestFailedText \o Digits(s)]

\* the plain object { response: { status } } the unit tests reject with
PlainHttpError(s) ==
    [kind |-> "object", code |-> NoCode, status |-> s, message |-> NoMessage]

\* the text of a transport error: "timeout of 30000ms exceeded" for the axios
\* deadline, "Network Error" otherwise
TimeoutText ==
    <<"t","i","m","e","o","u","t"," ","o","f"," ","3","0","0","0","0","m","s",
      " ","e","x","c","e","e","d","e","d">>

NetworkErrorText ==
    <<"N","e","t","w","o","r","k"," ","E","r","r","o","r">>

\* an AxiosError without a response: the request never got an answer
NetError(c) ==
    [kind |-> "AxiosError", code |-> c, status |-> NoStatus,
     message |-> IF c = "ECONNABORTED" THEN TimeoutText ELSE NetworkErrorText]

\* the values undefined and null: reading a property of them throws
UndefinedValue ==
    [kind |-> "undefined", code |-> NoCode, status |-> NoStatus, message |-> NoMessage]

NullValue ==
    [kind |-> "null", code |-> NoCode, status |-> NoStatus, message |-> NoMessage]

\* the TypeError thrown by reading .code of undefined or null
TypeErrorText ==
    <<"C","a","n","n","o","t"," ","r","e","a","d"," ","p","r","o","p","e","r",
      "t","i","e","s"," ","o","f"," ","u","n","d","e","f","i","n","e","d"," ",
      "(","r","e","a","d","i","n","g"," ","'","c","o","d","e","'",")">>

TypeErrorValue ==
    [kind |-> "TypeError", code |-> NoCode, status |-> NoStatus,
     message |-> TypeErrorText]

\* a value an operation resolves with
OkValue(v) ==
    [kind |-> "value", code |-> NoCode, status |-> NoStatus, message |-> <<v>>]

NoValue ==
    [kind |-> "none", code |-> NoCode, status |-> NoStatus, message |-> NoMessage]

\* connection reset, socket timeout, the axios deadline (timeout: 30000), DNS failure
TransportCodes == {"ECONNRESET", "ETIMEDOUT", "ECONNABORTED", "ENOTFOUND"}

ClientStatuses == {400, 404}

RetryStatuses == {429, 500, 503}

\* what the operation handed to execute may reject with
ExecErrors ==
    {HttpError(s) : s \in ClientStatuses \cup RetryStatuses}
        \cup {PlainHttpError(400)}
        \cup {NetError(c) : c \in TransportCodes}
        \cup {UndefinedValue, NullValue}

(***************************************************************************)
(* HttpClient (utilities.ts)                                               *)
(***************************************************************************)
maxRetries == 3

Min(a, b) == IF a <= b THEN a ELSE b

\* a linear backoff in place of the exponential one
Delay_Linear(attempt) == Min(1000 * (attempt + 1), 10000)

\* Math.min(1000 * Math.pow(2, attempt), 10000)
Delay(attempt) == Min(1000 * (2 ^ attempt), 10000)

\* error.code throws on undefined and null
IsRetryableThrows(error) == error.kind \in {"undefined", "null"}

\* the rate limit status forgotten
isRetryable_No429(error) ==
    \/ error.code = "ECONNRESET" \/ error.code = "ETIMEDOUT"
    \/ error.status >= 500

isRetryable(error) ==
    \/ error.code = "ECONNRESET" \/ error.code = "ETIMEDOUT"
    \/ error.status >= 500 \/ error.status = 429

\* the calls execute makes to its logger
RecoveryEvent(context, attempt) ==
    [level |-> "info", context |-> context, event |-> "succeeded after retries",
     n |-> attempt]

RetryEvent(context, delay, attempt) ==
    [level |-> "warn", context |-> context, event |-> "failed, retrying",
     n |-> delay]

FailureEvent(context) ==
    [level |-> "error", context |-> context, event |-> "failed after all retries",
     n |-> 0]

\* the recovery event logged on every success
ExecSuccessLogs_Always(attempt, context) == <<RecoveryEvent(context, attempt)>>

\* the try branch after operation() resolved: what is logged
ExecSuccessLogs(attempt, context) ==
    IF attempt > 0 THEN <<RecoveryEvent(context, attempt)>> ELSE <<>>

\* the loop bound off by one: the last retry is never made
ExecCatch_OneRetryLess(attempt, error, context) ==
    IF IsRetryableThrows(error)
    THEN [next |-> "throw", thrown |-> TypeErrorValue, logs |-> <<>>, delay |-> 0]
    ELSE IF attempt = maxRetries - 1 \/ ~isRetryable(error)
    THEN [next |-> "throw", thrown |-> error,
          logs |-> <<FailureEvent(context)>>, delay |-> 0]
    ELSE [next |-> "sleep", thrown |-> error,
          logs |-> <<RetryEvent(context, Delay(attempt), attempt + 1)>>,
          delay |-> Delay(attempt)]

\* the catch branch of execute and what follows the loop: either the call
\* sleeps before the next attempt, or it throws
ExecCatch(attempt, error, context) ==
    IF IsRetryableThrows(error)
    THEN [next |-> "throw", thrown |-> TypeErrorValue, logs |-> <<>>, delay |-> 0]
    ELSE IF attempt = maxRetries \/ ~isRetryable(error)
    THEN [next |-> "throw", thrown |-> error,
          logs |-> <<FailureEvent(context)>>, delay |-> 0]
    ELSE [next |-> "sleep", thrown |-> error,
          logs |-> <<RetryEvent(context, Delay(attempt), attempt + 1)>>,
          delay |-> Delay(attempt)]

(***************************************************************************)
(* The clock.  Time moves forward to any later instant of a timeline.      *)
(***************************************************************************)
MaxExecSeconds == 8

ExecInstants == {k * 1000 : k \in 0 .. MaxExecSeconds}

ExecTick ==
    /\ \E t \in ExecInstants : t > now /\ now' = t
    /\ UNCHANGED <<xvars, cvars, tvars, uvars>>

(***************************************************************************)
(* SpecExec: one call execute(operation, context)                          *)
(***************************************************************************)
ExecContexts == {"request", "test"}

XInitial ==
    /\ xpc = "idle"
    /\ xctx = "request"
    /\ xattempt = 0
    /\ xcalls = 0
    /\ xhist = <<>>
    /\ xout = NoValue
    /\ xlogs = <<>>
    /\ xsleeps = <<>>
    /\ xsleepAt = 0
    /\ xwakeAt = 0
    /\ xinvokedAt = 0

(***************************************************************************)
(* PyrusClient (pyrus-client.ts): state after construction                 *)
(***************************************************************************)
Procs == {"p1", "p2"}

\* the callers that run operations under Spec: one at a time
Callers == {"p1"}

NoToken == "null"

\* response.data.access_token of a response whose body has no such field
UndefinedToken == "undefined"

\* the truthiness of a token: null, undefined and '' are falsy
Truthy(token) == token \notin {NoToken, UndefinedToken, ""}

NoCache == [profile |-> "null", expires |-> 0]

\* no exchange has completed yet; no fetch has completed yet
NoExchange == [token |-> NoToken, by |-> "none"]

NoFetch == [value |-> "null", at |-> 0, values |-> {}]

\* the headers of a request: the defaults of axios.create, and Authorization
\* when the interceptor has set it
NoHeader == <<>>

BearerHeader(token) == <<"Bearer", token>>

DefaultHeaders == {"Content-Type", "User-Agent"}

NoRequest == [method |-> "none", path |-> <<>>, headers |-> {}]

Ops == {"createTask", "getTask", "updateTask", "moveTask", "getProfile"}

\* a caller with no operation in flight
\* pc, op, attempt, authAttempt, wakeAt and result are the call's position and
\* locals; the other fields record what the call has done so far
IdleProc ==
    [pc |-> "idle", op |-> "none", attempt |-> 0, authAttempt |-> 0, wakeAt |-> 0,
     result |-> NoValue, ensState |-> "none", ensReqs |-> 0,
     sent |-> FALSE, hdr |-> NoHeader, authFailed |-> FALSE,
     held |-> NoToken, req |-> NoRequest, nreq |-> 0, created |-> 0,
     startAt |-> 0, nauth |-> 0]

CInitial ==
    /\ accessToken = NoToken
    /\ tokenExpires = 0
    /\ profileCache = NoCache
    /\ tokenSetAt = 0
    /\ authHist = NoExchange
    /\ profileHist = NoFetch
    /\ proc = [p \in Procs |-> IdleProc]
\* the server after construction, no tool call in progress
TInitial ==
    /\ pyrusClient = "null"
    /\ constructed = 0
    /\ tpc = "idle"
    /\ tname = "none"
    /\ terr = NoValue
    /\ tout = NoValue

EnvSet == envLogin = TRUE /\ envToken = TRUE

\* an optional value - a field of a JSON object, an optional argument - is
\* the empty sequence when it is absent (undefined) and <<v>> when it is v
Absent == <<>>

Some(v) == <<v>>

\* the request a call hands to axios, before the interceptor; its result
Request(method, path, body) == [method |-> method, path |-> path, body |-> body]

Ret(kind, value) == [kind |-> kind, value |-> value]

\* a string of a configuration is the sequence of its pieces; '' is <<>>
DefaultDomain == <<"pyrus.com">>

\* JavaScript's  a || b  for an optional string: '' and undefined are falsy
OrElse(opt, default) ==
    IF opt = Absent \/ opt = Some(<<>>) THEN default ELSE opt[1]

\* `https://api.${domain}/v4` and `https://accounts.${domain}/api/v4/auth`
ApiUrl(domain) == <<"https://api.">> \o domain \o <<"/v4">>

AccountsUrl(domain) == <<"https://accounts.">> \o domain \o <<"/api/v4/auth">>

\* the constructor: config.domain || 'pyrus.com'
Domain(cfg) == OrElse(cfg.domain, DefaultDomain)

\* a constructor that ignores the baseUrl of the configuration
BaseUrl_IgnoresOverride(cfg) == ApiUrl(Domain(cfg))

\* this.baseUrl = config.baseUrl || `https://api.${domain}/v4`
BaseUrl(cfg) == OrElse(cfg.baseUrl, ApiUrl(Domain(cfg)))

\* this.authUrl = `https://accounts.${domain}/api/v4/auth`
AuthUrl(cfg) == AccountsUrl(Domain(cfg))

\* the configuration of the server's client when only the credentials are set
DefaultConfig == [domain |-> Absent, baseUrl |-> Absent]

\* the levels of LogLevel: ERROR = 0, WARN = 1, INFO = 2, DEBUG = 3
LevelNames == <<"ERROR", "WARN", "INFO", "DEBUG">>

InfoLevel == 2

NoLogCall == [level |-> InfoLevel, message |-> "none", data |-> Absent]

NoLine == [level |-> "none", message |-> "none", data |-> <<>>]

\* the client and the logger as constructed with no configuration beyond the
\* credentials; nothing logged
KInitial ==
    /\ config = DefaultConfig
    /\ baseUrl = BaseUrl(DefaultConfig)
    /\ authUrl = AuthUrl(DefaultConfig)
    /\ level = InfoLevel
    /\ logged = NoLogCall
    /\ emitted = NoLine

\* no client operation of SpecOps has been called
UInitial ==
    /\ KInitial
    /\ lists = <<>>
    /\ task = [id |-> 1, related_tasks |-> Absent, comments |-> Absent]
    /\ args = [name |-> <<>>, task_id |-> 1, list_id |-> 200, responsible |-> Absent]
    /\ ucall = "none"
    /\ ureq = Request("none", <<>>, Absent)
    /\ uret = Ret("none", Absent)

XInit == now = 0 /\ XInitial /\ CInitial /\ TInitial /\ EnvSet /\ UInitial

\* execute is called and runs up to its first await: operation() is invoked
ExecCall ==
    /\ xpc = "idle"
    /\ \E c \in ExecContexts : xctx' = c
    /\ xpc' = "awaitOp"
    /\ xattempt' = 0
    /\ xcalls' = xcalls + 1
    /\ xinvokedAt' = now
    /\ UNCHANGED <<now, xhist, xout, xlogs, xsleeps, xsleepAt, xwakeAt>>

\* operation() resolves: the recovery event, then return result
ExecResolve ==
    /\ xpc = "awaitOp"
    /\ xout' = OkValue("success")
    /\ xlogs' = xlogs \o ExecSuccessLogs(xattempt, xctx)
    /\ xpc' = "returned"
    /\ UNCHANGED <<now, xctx, xattempt, xcalls, xhist, xsleeps, xsleepAt, xwakeAt,
                   xinvokedAt>>

\* operation() rejects with e: the catch block
ExecReject ==
    /\ xpc = "awaitOp"
    /\ \E e \in ExecErrors :
         LET c == ExecCatch(xattempt, e, xctx) IN
           /\ xhist' = Append(xhist, e)
           /\ xlogs' = xlogs \o c.logs
           /\ IF c.next = "throw"
              THEN /\ xpc' = "threw"
                   /\ xout' = c.thrown
                   /\ UNCHANGED <<xsleeps, xsleepAt, xwakeAt>>
              ELSE /\ xpc' = "sleeping"
                   /\ xsleeps' = Append(xsleeps, c.delay)
                   /\ xsleepAt' = now
                   /\ xwakeAt' = now + c.delay
                   /\ UNCHANGED xout
    /\ UNCHANGED <<now, xctx, xattempt, xcalls, xinvokedAt>>

\* the timer of sleep(delay) fires: attempt++ and operation() is invoked again
ExecWake ==
    /\ xpc = "sleeping"
    /\ now >= xwakeAt
    /\ xattempt' = xattempt + 1
    /\ xcalls' = xcalls + 1
    /\ xinvokedAt' = now
    /\ xpc' = "awaitOp"
    /\ UNCHANGED <<now, xctx, xhist, xout, xlogs, xsleeps, xsleepAt, xwakeAt>>

XNext ==
    \/ (ExecCall /\ UNCHANGED <<cvars, tvars, uvars>>)
    \/ (ExecResolve /\ UNCHANGED <<cvars, tvars, uvars>>)
    \/ (ExecReject /\ UNCHANGED <<cvars, tvars, uvars>>)
    \/ (ExecWake /\ UNCHANGED <<cvars, tvars, uvars>>)
    \/ ExecTick

SpecExec == XInit /\ [][XNext]_vars

(***************************************************************************)
(* Spec: one PyrusClient, its callers running operations concurrently.     *)
(* A step runs one caller from one await to the next.                      *)
(***************************************************************************)
\* a token kept for the hour it nominally lasts
TokenTTL_Hour == 60 * 60 * 1000

\* 50 * 60 * 1000 and 5 * 60 * 1000
TokenTTL == 50 * 60 * 1000

CacheTTL == 5 * 60 * 1000

\* the tokens the authentication endpoint hands out, the profiles GET /profile returns
Tokens == {"tokA", "tokB"}

\* response.data.access_token of the responses the authentication endpoint may
\* answer with: a token, or nothing when the body has no access_token
AuthTokens == Tokens \cup {UndefinedToken}

Profiles == {"profA", "profB"}

\* what a request to the authentication endpoint, to the API, may fail with
AuthErrors == {HttpError(503), HttpError(400)}

ApiErrors == {HttpError(503), HttpError(404)}

\* throw new Error('Failed to authenticate with Pyrus API')
AuthFailedMessage ==
    <<"F","a","i","l","e","d"," ","t","o"," ","a","u","t","h","e","n","t","i",
      "c","a","t","e"," ","w","i","t","h"," ","P","y","r","u","s"," ","A","P",
      "I">>

AuthFailedError ==
    [kind |-> "Error", code |-> NoCode, status |-> NoStatus,
     message |-> AuthFailedMessage]

\* the context argument each operation passes to execute
OpContext(o) ==
    CASE o = "createTask" -> "Create task"
      [] o = "getTask" -> "Get task"
      [] o = "updateTask" -> "Update task"
      [] o = "moveTask" -> "Move task"
      [] o = "getProfile" -> "Get profile"

ClientInstants ==
    {0, Delay(0), CacheTTL, CacheTTL + Delay(0), TokenTTL, TokenTTL + Delay(0),
     TokenTTL + CacheTTL}

ClientTick ==
    /\ \E t \in ClientInstants : t > now /\ now' = t
    /\ UNCHANGED <<xvars, cvars, tvars, uvars>>

\* the expiry check with the boundary instant counted as valid
TokenValid_Inclusive == Truthy(accessToken) /\ now <= tokenExpires

\* the expiry comparison turned around
TokenValid_Reversed == Truthy(accessToken) /\ now > tokenExpires

\* this.accessToken && Date.now() < this.tokenExpires
TokenValid == Truthy(accessToken) /\ now < tokenExpires

\* the state of the token state machine at this instant, by the clock alone:
\* a token is good for 50 minutes from the instant it was stored
FiftyMinutes == 50 * 60 * 1000

ClientState ==
    IF ~Truthy(accessToken) THEN "unauthenticated"
    ELSE IF now < tokenSetAt + FiftyMinutes THEN "valid"
    ELSE "expired"

\* the cache check with the expiry instant itself counted as fresh
CacheValid_Inclusive == profileCache # NoCache /\ now <= profileCache.expires

\* this.profileCache && Date.now() < this.profileCache.expires
CacheValid == profileCache # NoCache /\ now < profileCache.expires

Set(p, r) == proc' = [proc EXCEPT ![p] = r]

\* the method and the url each operation passes to axios
\* the id left out of the url
TaskPath_NoId(taskId) == <<"tasks">>

TaskPath(taskId) == <<"tasks", taskId>>

CommentsPath(taskId) == <<"tasks", taskId, "comments">>

RequestLine(o, taskId) ==
    CASE o = "createTask" -> [method |-> "POST", path |-> <<"tasks">>]
      [] o = "getTask" -> [method |-> "GET", path |-> TaskPath(taskId)]
      [] o = "updateTask" -> [method |-> "POST", path |-> CommentsPath(taskId)]
      [] o = "moveTask" -> [method |-> "POST", path |-> CommentsPath(taskId)]
      [] o = "getProfile" -> [method |-> "GET", path |-> <<"profile">>]

\* the request as it leaves the interceptor: Authorization is set only when
\* the token held is truthy
InterceptedRequest(o) ==
    [method |-> RequestLine(o, 1).method, path |-> RequestLine(o, 1).path,
     headers |-> IF Truthy(accessToken) THEN DefaultHeaders \cup {"Authorization"}
                 ELSE DefaultHeaders]

AuthorizationHeader ==
    IF Truthy(accessToken) THEN BearerHeader(accessToken) ELSE NoHeader

\* whether the server may have carried out a request it answered with e, or
\* did not answer: a 5xx after the work was done, a connection lost on the
\* way back
MayHaveApplied(e) == e.status >= 500 \/ e.code \in TransportCodes

\* the expiry computed from the instant of the call, not of the store
CacheEntry_ExpiryFromCall(p, v) ==
    [profile |-> v, expires |-> proc[p].startAt + CacheTTL]

\* the object getProfile stores in profileCache
CacheEntry(p, v) == [profile |-> v, expires |-> now + CacheTTL]

\* a client that gives up at once on a failed createTask instead of retrying
OuterCatch_NoRetryForCreate(p, e) ==
    LET c == ExecCatch(proc[p].attempt, e, OpContext(proc[p].op)) IN
    IF c.next = "throw" \/ proc[p].op = "createTask"
    THEN [proc[p] EXCEPT !.pc = "done", !.result = e]
    ELSE [proc[p] EXCEPT !.pc = "apiSleep", !.wakeAt = now + c.delay,
                         !.hdr = NoHeader, !.held = NoToken]

\* the catch block of the operation's own execute, for a rejection with e
OuterCatch(p, e) ==
    LET c == ExecCatch(proc[p].attempt, e, OpContext(proc[p].op)) IN
    IF c.next = "throw"
    THEN [proc[p] EXCEPT !.pc = "done", !.result = c.thrown]
    ELSE [proc[p] EXCEPT !.pc = "apiSleep", !.wakeAt = now + c.delay,
                         !.hdr = NoHeader, !.held = NoToken]

\* a caller starts an operation: getProfile answers from a fresh cache entry,
\* everything else enters execute, which invokes the operation; the request
\* is handed to axios and its interceptor is pending
StartOp(p) ==
    /\ proc[p].pc = "idle"
    /\ \E o \in Ops :
         IF o = "getProfile" /\ CacheValid
         THEN Set(p, [IdleProc EXCEPT !.pc = "done", !.op = o, !.startAt = now,
                                     !.result = OkValue(profileCache.profile)])
         ELSE Set(p, [IdleProc EXCEPT !.pc = "intercept", !.op = o,
                                     !.startAt = now])
    /\ UNCHANGED <<now, xvars, tvars, uvars, accessToken, tokenExpires, profileCache, tokenSetAt,
                   authHist, profileHist>>

\* the request interceptor up to its await: ensureAuthenticated returns at once
\* for a valid token, and otherwise authenticate posts to the auth endpoint
\* from inside its own execute
Interceptor(p) ==
    /\ proc[p].pc = "intercept"
    /\ IF TokenValid
       THEN Set(p, [proc[p] EXCEPT !.pc = "authed", !.ensState = ClientState,
                                   !.ensReqs = 0])
       ELSE Set(p, [proc[p] EXCEPT !.pc = "authWait", !.ensState = ClientState,
                                   !.ensReqs = 1, !.authAttempt = 0,
                                   !.nauth = @ + 1])
    /\ UNCHANGED <<now, xvars, tvars, uvars, accessToken, tokenExpires, profileCache, tokenSetAt,
                   authHist, profileHist>>

\* the auth endpoint answers with a token: authenticate stores it and its expiry
AuthResolve(p) ==
    /\ proc[p].pc = "authWait"
    /\ \E t \in AuthTokens :
         /\ accessToken' = t
         /\ authHist' = [token |-> t, by |-> p]
    /\ tokenExpires' = now + TokenTTL
    /\ tokenSetAt' = now
    /\ Set(p, [proc[p] EXCEPT !.pc = "authed"])
    /\ UNCHANGED <<now, xvars, tvars, uvars, profileCache, profileHist>>

\* the catch block swallowing the failure: the interceptor goes on
AfterAuthFailure_Swallowed(p, thrown) ==
    [proc[p] EXCEPT !.pc = "authed", !.authFailed = TRUE]

\* authenticate's execute has thrown: its catch block throws the error of its
\* own, which rejects the interceptor and so the attempt of the operation
AfterAuthFailure(p, thrown) ==
    [OuterCatch(p, AuthFailedError) EXCEPT !.authFailed = TRUE]

\* a client that forgets its token when an exchange fails
AuthReject_ClearsToken(p) ==
    /\ proc[p].pc = "authWait"
    /\ \E e \in AuthErrors :
         LET c == ExecCatch(proc[p].authAttempt, e, "Authentication") IN
         IF c.next = "throw"
         THEN Set(p, AfterAuthFailure(p, c.thrown))
         ELSE Set(p, [proc[p] EXCEPT !.pc = "authSleep", !.wakeAt = now + c.delay])
    /\ accessToken' = NoToken
    /\ tokenExpires' = 0
    /\ UNCHANGED <<now, xvars, tvars, uvars, profileCache, tokenSetAt,
                   authHist, profileHist>>

\* the auth request fails: the inner execute sleeps before a retry, or throws;
\* then authenticate throws its own error, which rejects the interceptor and
\* with it the operation's attempt
AuthReject(p) ==
    /\ proc[p].pc = "authWait"
    /\ \E e \in AuthErrors :
         LET c == ExecCatch(proc[p].authAttempt, e, "Authentication") IN
         IF c.next = "throw"
         THEN Set(p, AfterAuthFailure(p, c.thrown))
         ELSE Set(p, [proc[p] EXCEPT !.pc = "authSleep", !.wakeAt = now + c.delay])
    /\ UNCHANGED <<now, xvars, tvars, uvars, accessToken, tokenExpires, profileCache, tokenSetAt,
                   authHist, profileHist>>

\* the inner execute's sleep ends: the auth request is posted again
AuthWake(p) ==
    /\ proc[p].pc = "authSleep"
    /\ now >= proc[p].wakeAt
    /\ Set(p, [proc[p] EXCEPT !.pc = "authWait", !.authAttempt = @ + 1,
                              !.ensReqs = @ + 1, !.nauth = @ + 1,
                              !.wakeAt = 0])
    /\ UNCHANGED <<now, xvars, tvars, uvars, accessToken, tokenExpires, profileCache, tokenSetAt,
                   authHist, profileHist>>

\* the interceptor after its await: the header is set from the token held now,
\* and the request goes to the API
InterceptorSend(p) ==
    /\ proc[p].pc = "authed"
    /\ Set(p, [proc[p] EXCEPT !.pc = "apiWait", !.hdr = AuthorizationHeader,
                              !.held = accessToken, !.sent = TRUE,
                              !.req = InterceptedRequest(proc[p].op),
                              !.nreq = @ + 1])
    /\ UNCHANGED <<now, xvars, tvars, uvars, accessToken, tokenExpires, profileCache, tokenSetAt,
                   authHist, profileHist>>

\* a client that drops the cached profile whenever a task operation succeeds
ApiResolve_WriteInvalidates(p) ==
    /\ proc[p].pc = "apiWait"
    /\ IF proc[p].op = "getProfile"
       THEN \E v \in Profiles :
              /\ Set(p, [proc[p] EXCEPT !.pc = "done", !.result = OkValue(v)])
              /\ profileCache' = CacheEntry(p, v)
              /\ profileHist' = [value |-> v, at |-> now,
                                 values |-> profileHist.values \cup {v}]
       ELSE /\ Set(p, [proc[p] EXCEPT !.pc = "done", !.result = OkValue("task"),
                                      !.created = IF proc[p].op = "createTask"
                                                  THEN @ + 1 ELSE @])
            /\ profileCache' = NoCache
            /\ UNCHANGED profileHist
    /\ UNCHANGED <<now, xvars, tvars, uvars, accessToken, tokenExpires, tokenSetAt, authHist>>

\* the API answers: execute returns, and getProfile stores the profile
ApiResolve(p) ==
    /\ proc[p].pc = "apiWait"
    /\ IF proc[p].op = "getProfile"
       THEN \E v \in Profiles :
              /\ Set(p, [proc[p] EXCEPT !.pc = "done", !.result = OkValue(v)])
              /\ profileCache' = CacheEntry(p, v)
              /\ profileHist' = [value |-> v, at |-> now,
                                 values |-> profileHist.values \cup {v}]
       ELSE /\ Set(p, [proc[p] EXCEPT !.pc = "done", !.result = OkValue("task"),
                                      !.created = IF proc[p].op = "createTask"
                                                  THEN @ + 1 ELSE @])
            /\ UNCHANGED <<profileCache, profileHist>>
    /\ UNCHANGED <<now, xvars, tvars, uvars, accessToken, tokenExpires, tokenSetAt, authHist>>

\* a client that drops the cached profile when a request fails
ApiReject_DropsCache(p) ==
    /\ proc[p].pc = "apiWait"
    /\ \E e \in ApiErrors, applied \in BOOLEAN :
         /\ applied => (proc[p].op = "createTask" /\ MayHaveApplied(e))
         /\ Set(p, [OuterCatch(p, e) EXCEPT
                       !.created = IF applied THEN @ + 1 ELSE @])
    /\ profileCache' = NoCache
    /\ UNCHANGED <<now, xvars, tvars, uvars, accessToken, tokenExpires, tokenSetAt,
                   authHist, profileHist>>

\* the API request fails: the catch block of the operation's execute
ApiReject(p) ==
    /\ proc[p].pc = "apiWait"
    /\ \E e \in ApiErrors, applied \in BOOLEAN :
         /\ applied => (proc[p].op = "createTask" /\ MayHaveApplied(e))
         /\ Set(p, [OuterCatch(p, e) EXCEPT
                       !.created = IF applied THEN @ + 1 ELSE @])
    /\ UNCHANGED <<now, xvars, tvars, uvars, accessToken, tokenExpires, profileCache, tokenSetAt,
                   authHist, profileHist>>

\* a retry that re-sends the request without running the interceptor again
ApiWake_NoRecheck(p) ==
    /\ proc[p].pc = "apiSleep"
    /\ now >= proc[p].wakeAt
    /\ Set(p, [proc[p] EXCEPT !.pc = "authed", !.attempt = @ + 1,
                              !.sent = FALSE, !.wakeAt = 0,
                              !.ensState = "none", !.ensReqs = 0,
                              !.authAttempt = 0])
    /\ UNCHANGED <<now, xvars, tvars, uvars, accessToken, tokenExpires, profileCache, tokenSetAt,
                   authHist, profileHist>>

\* a timer that is lost when it falls due: the sleep never resolves
ApiWake_LostTimer(p) ==
    /\ proc[p].pc = "apiSleep"
    /\ now > proc[p].wakeAt
    /\ Set(p, [proc[p] EXCEPT !.pc = "intercept", !.attempt = @ + 1,
                              !.sent = FALSE, !.wakeAt = 0,
                              !.ensState = "none", !.ensReqs = 0,
                              !.authAttempt = 0])
    /\ UNCHANGED <<now, xvars, tvars, uvars, accessToken, tokenExpires, profileCache, tokenSetAt,
                   authHist, profileHist>>

\* the operation's sleep ends: attempt++, the operation is invoked again and
\* its request waits for the interceptor
ApiWake(p) ==
    /\ proc[p].pc = "apiSleep"
    /\ now >= proc[p].wakeAt
    /\ Set(p, [proc[p] EXCEPT !.pc = "intercept", !.attempt = @ + 1,
                              !.sent = FALSE, !.wakeAt = 0,
                              !.ensState = "none", !.ensReqs = 0,
                              !.authAttempt = 0])
    /\ UNCHANGED <<now, xvars, tvars, uvars, accessToken, tokenExpires, profileCache, tokenSetAt,
                   authHist, profileHist>>

\* the caller has its result or error and may start another operation
Finish(p) ==
    /\ proc[p].pc = "done"
    /\ Set(p, IdleProc)
    /\ UNCHANGED <<now, xvars, tvars, uvars, accessToken, tokenExpires, profileCache, tokenSetAt,
                   authHist, profileHist>>

Init == now = 0 /\ XInitial /\ CInitial /\ TInitial /\ EnvSet /\ UInitial

Next ==
    \/ \E p \in Callers : StartOp(p)
    \/ \E p \in Callers : Interceptor(p)
    \/ \E p \in Callers : AuthResolve(p)
    \/ \E p \in Callers : AuthReject(p)
    \/ \E p \in Callers : AuthWake(p)
    \/ \E p \in Callers : InterceptorSend(p)
    \/ \E p \in Callers : ApiResolve(p)
    \/ \E p \in Callers : ApiReject(p)
    \/ \E p \in Callers : ApiWake(p)
    \/ \E p \in Callers : Finish(p)
    \/ ClientTick

Spec == Init /\ [][Next]_vars

(***************************************************************************)
(* SpecConcurrent: the same client with two callers, their operations      *)
(* interleaved at every await.  The environment is narrower than under     *)
(* Spec: the callers run getProfile and getTask, an endpoint answers with  *)
(* a retryable failure only to the first attempt of an execute, the token  *)
(* endpoint issues each caller's exchanges a token of their own (or none), *)
(* and the clock has two instants: construction, and the instant at which  *)
(* everything stored at construction has expired.                          *)
(***************************************************************************)
ConcurrentOps == {"getProfile", "getTask"}

ConcurrentInstants == {0, TokenTTL}

IssuedTo(p) == IF p = "p1" THEN "tokA" ELSE "tokB"

ConcurrentEnv(p) ==
    /\ proc'[p].op \in ConcurrentOps \cup {"none"}
    /\ proc'[p].pc = "apiSleep" => proc[p].attempt = 0
    /\ proc'[p].pc = "authSleep" => proc[p].authAttempt = 0
    /\ (authHist' # authHist /\ authHist'.token \in Tokens)
          => authHist'.token = IssuedTo(p)

ConcurrentTick == ClientTick /\ now' \in ConcurrentInstants

NextConcurrent ==
    \/ \E p \in Procs : StartOp(p) /\ ConcurrentEnv(p)
    \/ \E p \in Procs : Interceptor(p) /\ ConcurrentEnv(p)
    \/ \E p \in Procs : AuthResolve(p) /\ ConcurrentEnv(p)
    \/ \E p \in Procs : AuthReject(p) /\ ConcurrentEnv(p)
    \/ \E p \in Procs : AuthWake(p) /\ ConcurrentEnv(p)
    \/ \E p \in Procs : InterceptorSend(p) /\ ConcurrentEnv(p)
    \/ \E p \in Procs : ApiResolve(p) /\ ConcurrentEnv(p)
    \/ \E p \in Procs : ApiReject(p) /\ ConcurrentEnv(p)
    \/ \E p \in Procs : ApiWake(p) /\ ConcurrentEnv(p)
    \/ \E p \in Procs : Finish(p) /\ ConcurrentEnv(p)
    \/ ConcurrentTick

SpecConcurrent == Init /\ [][NextConcurrent]_vars

(***************************************************************************)
(* SpecLive: the client with one caller, under the fairness the event loop *)
(* and the network give: a continuation that is ready runs, a timer that   *)
(* is due fires, and every HTTP attempt is answered or fails.  Operations  *)
(* are dispatched at instant 0 and the clock moves from one timer to the   *)
(* next.                                                                   *)
(***************************************************************************)
Dispatch(p) == StartOp(p) /\ now = 0

\* time passes until the timer of the pending sleep(delay) is due
TimerDue(p) ==
    /\ proc[p].pc \in {"apiSleep", "authSleep"}
    /\ now < proc[p].wakeAt
    /\ now' = proc[p].wakeAt
    /\ UNCHANGED <<xvars, cvars, tvars, uvars>>

NextLive ==
    \/ \E p \in Callers : Dispatch(p)
    \/ \E p \in Callers : Interceptor(p)
    \/ \E p \in Callers : AuthResolve(p)
    \/ \E p \in Callers : AuthReject(p)
    \/ \E p \in Callers : AuthWake(p)
    \/ \E p \in Callers : InterceptorSend(p)
    \/ \E p \in Callers : ApiResolve(p)
    \/ \E p \in Callers : ApiReject(p)
    \/ \E p \in Callers : ApiWake(p)
    \/ \E p \in Callers : Finish(p)
    \/ \E p \in Callers : TimerDue(p)

\* every HTTP attempt finishes, every due timer fires, every ready
\* continuation runs; nothing obliges a caller to dispatch an operation
EventLoopFairness ==
    \A p \in Callers :
        /\ WF_vars(Interceptor(p))
        /\ WF_vars(AuthResolve(p) \/ AuthReject(p))
        /\ WF_vars(AuthWake(p))
        /\ WF_vars(InterceptorSend(p))
        /\ WF_vars(ApiResolve(p) \/ ApiReject(p))
        /\ WF_vars(ApiWake(p))
        /\ WF_vars(TimerDue(p))

SpecLive == Init /\ [][NextLive]_vars /\ EventLoopFairness

(***************************************************************************)
(* Properties of execute (checked under SpecExec)                          *)
(***************************************************************************)
\* how many entries of a log record the given event
RECURSIVE CountLogs(_, _)
CountLogs(logs, event) ==
    IF logs = <<>> THEN 0
    ELSE (IF Head(logs).event = event THEN 1 ELSE 0) + CountLogs(Tail(logs), event)

AllAttemptsFailedWith(e) ==
    /\ xhist # <<>>
    /\ \A i \in 1 .. Len(xhist) : xhist[i] = e

\* C1: an operation that fails with HTTP 503 on every attempt has been invoked
\* exactly 4 times when execute throws (and never more than 4 times), and an
\* operation whose first attempt fails with HTTP 404 is invoked exactly once
\* and execute throws at once.
C1_RetryBound ==
    /\ AllAttemptsFailedWith(HttpError(503)) =>
         /\ xcalls <= 4
         /\ xpc = "threw" <=> (Len(xhist) = 4)
         /\ xpc = "threw" => xcalls = 4 /\ xout = HttpError(503)
    /\ (xhist # <<>> /\ xhist[1] = HttpError(404)) =>
         /\ xcalls = 1
         /\ xpc = "threw"
         /\ xout = HttpError(404)

C1_Witness ==
    /\ xpc = "threw"
    /\ AllAttemptsFailedWith(HttpError(503))
    /\ xcalls = 4

\* C2: a failure carrying an HTTP status of 500 or above, or 429, is retried
\* while retries remain; a failure carrying any other status is terminal: it
\* is thrown by the very step that caught it, no sleep is started and the
\* operation is not invoked again.
C2_Classification ==
    \A i \in 1 .. Len(xhist) :
        LET e == xhist[i] IN
        e.status # NoStatus =>
            IF e.status >= 500 \/ e.status = 429
            THEN i <= maxRetries => Len(xsleeps) >= i /\ xcalls >= i
            ELSE /\ i = Len(xhist)
                 /\ xpc = "threw"
                 /\ xout = e
                 /\ Len(xsleeps) = i - 1
                 /\ xcalls = i

C2_Witness ==
    /\ Len(xhist) = 2
    /\ xhist[1] = HttpError(429)
    /\ xhist[2] = HttpError(400)
    /\ xpc = "threw"

\* C3 (as claimed): every transport or timeout failure - connection reset,
\* DNS failure, the request deadline exceeded - is retried while retries remain.
C3_TransportRetried ==
    \A i \in 1 .. Len(xhist) :
        (xhist[i].code \in TransportCodes /\ i <= maxRetries) => Len(xsleeps) >= i

\* C4: the waits before the 1st, 2nd and 3rd retry are 1000, 2000 and 4000 ms,
\* there are at most three, none exceeds 10000 ms (nor would the delay of any
\* later attempt), and an attempt after the first is invoked no earlier than
\* the start of its wait plus the wait.
MaxAttemptProbe == 8

C4_Backoff ==
    /\ Len(xsleeps) <= 3
    /\ \A i \in 1 .. Len(xsleeps) :
         /\ xsleeps[i] = <<1000, 2000, 4000>>[i]
         /\ xsleeps[i] <= 10000
    /\ \A a \in 0 .. MaxAttemptProbe : Delay(a) <= 10000
    /\ (xattempt > 0 /\ xpc # "sleeping") =>
         xinvokedAt >= xsleepAt + xsleeps[xattempt]
    /\ xpc = "sleeping" => xwakeAt = xsleepAt + xsleeps[Len(xsleeps)]

C4_Witness ==
    /\ xsleeps = <<1000, 2000, 4000>>
    /\ xattempt = 3
    /\ xpc = "awaitOp"
    /\ xinvokedAt = 7000

\* C5 (as claimed): when execute throws, the value thrown is the value the last
\* attempt rejected with, whatever it is, and exactly one failure event with
\* the context label has been logged.
C5_ErrorVerbatim ==
    xpc = "threw" =>
        /\ xout = xhist[Len(xhist)]
        /\ CountLogs(xlogs, FailureEvent(xctx).event) = 1
        /\ xlogs[Len(xlogs)] = FailureEvent(xctx)

\* C6: execute returns after the first attempt that succeeds, having invoked
\* the operation once per failed attempt plus once (once for a first-time
\* success, twice after one retryable failure), and a recovery event is in
\* the log exactly when the call returned from an attempt after the first.
C6_FirstSuccess ==
    /\ xpc = "returned" =>
         /\ xout = OkValue("success")
         /\ xcalls = Len(xhist) + 1
         /\ xattempt = Len(xhist)
         /\ \A i \in 1 .. Len(xhist) : isRetryable(xhist[i])
    /\ CountLogs(xlogs, RecoveryEvent(xctx, 0).event)
         = (IF xpc = "returned" /\ xattempt > 0 THEN 1 ELSE 0)
    /\ (xpc = "returned" /\ xattempt > 0) =>
         xlogs[Len(xlogs)] = RecoveryEvent(xctx, xattempt)

C6_Witness ==
    /\ xpc = "returned"
    /\ xhist = <<NetError("ECONNRESET")>>
    /\ xcalls = 2
    /\ CountLogs(xlogs, RecoveryEvent(xctx, 0).event) = 1

\* C26 (as claimed): whatever the attempts reject with, execute goes on only
\* after a retryable failure and makes at most 4 attempts; the first failure
\* that is not retryable, and the failure of the 4th attempt, end the call at
\* once: the value thrown is that last failure, not an earlier one, no wait
\* follows it and the operation is not invoked again.
C26_StopsAtFirstEnd ==
    /\ xcalls <= maxRetries + 1
    /\ xpc = "returned" => xcalls = Len(xhist) + 1
    /\ \A i \in 1 .. Len(xhist) :
         LET e == xhist[i] IN
         IF isRetryable(e) /\ i <= maxRetries
         THEN Len(xsleeps) >= i
         ELSE /\ i = Len(xhist)
              /\ xpc = "threw"
              /\ xout = e
              /\ Len(xsleeps) = i - 1
              /\ xcalls = i

(***************************************************************************)
(* Properties of the token lifecycle (checked under Spec)                  *)
(***************************************************************************)
\* the caller's latest ensureAuthenticated call has resolved or rejected
EnsFinished(p) ==
    /\ proc[p].ensState # "none"
    /\ proc[p].pc \in {"authed", "apiWait", "apiSleep", "done"}

\* C7 (as claimed): an ensureAuthenticated call made in the Valid state issues
\* no request to the authentication endpoint, and one made in the
\* Unauthenticated or Expired state issues exactly one.
C7_ExactlyOneAuthRequest ==
    \A p \in Procs :
        /\ proc[p].ensState = "valid" => proc[p].ensReqs = 0
        /\ (EnsFinished(p) /\ proc[p].ensState \in {"unauthenticated", "expired"})
             => proc[p].ensReqs = 1

\* C7 (amended): an ensureAuthenticated call made in the Valid state issues no
\* request to the authentication endpoint; one made in the Unauthenticated or
\* Expired state runs one exchange through the executor, which issues one
\* request plus one per retry: between 1 and 4 requests.
C7_OneAuthExchange ==
    \A p \in Procs :
        /\ proc[p].ensState = "valid" =>
             proc[p].ensReqs = 0 /\ proc[p].pc \notin {"authWait", "authSleep"}
        /\ proc[p].ensState \in {"unauthenticated", "expired"} =>
             /\ proc[p].ensReqs >= 1
             /\ proc[p].ensReqs <= maxRetries + 1
             /\ proc[p].ensReqs = proc[p].authAttempt + 1
        /\ proc[p].pc \in {"authWait", "authSleep"} =>
             proc[p].ensState \in {"unauthenticated", "expired"}

C7_Witness ==
    \E p \in Procs :
        /\ proc[p].pc = "authed"
        /\ proc[p].ensState = "expired"
        /\ proc[p].ensReqs = 2

\* C8: a stored token expires 50 minutes after the instant t it was stored;
\* at every instant before t + 50 minutes the validity check passes and from
\* t + 50 minutes on it fails; a request checked then starts the same exchange
\* an unauthenticated client starts.
C8_TokenLifetime ==
    /\ accessToken # NoToken => tokenExpires = tokenSetAt + FiftyMinutes
    /\ TokenValid <=> (Truthy(accessToken) /\ now < tokenSetAt + FiftyMinutes)
    /\ \A p \in Procs :
         /\ proc[p].ensState = "valid" => proc[p].ensReqs = 0
         /\ proc[p].ensState \in {"expired", "unauthenticated"} =>
              proc[p].ensReqs >= 1

C8_Witness ==
    \E p \in Procs :
        /\ Truthy(accessToken)
        /\ now = tokenSetAt + FiftyMinutes
        /\ proc[p].pc = "authWait"
        /\ proc[p].ensState = "expired"
        /\ proc[p].ensReqs = 1

\* C9: when the authentication exchange of an operation has failed, the
\* operation is over with the authentication error as its outcome and the
\* attempt it was made for has sent no API request; an API request is in
\* flight only for an attempt whose exchange did not fail.
C9_AuthFailureStops ==
    \A p \in Procs :
        /\ proc[p].authFailed =>
             /\ proc[p].pc = "done"
             /\ proc[p].result = AuthFailedError
             /\ ~proc[p].sent
        /\ proc[p].pc = "apiWait" => proc[p].sent /\ ~proc[p].authFailed

C9_Witness ==
    \E p \in Procs :
        /\ proc[p].authFailed
        /\ proc[p].pc = "done"
        /\ proc[p].attempt = 1
        /\ proc[p].result = AuthFailedError

(***************************************************************************)
(* Properties of the requests and of the profile cache (checked under Spec) *)
(***************************************************************************)
\* C11 (as claimed): every request sent to the API carries an Authorization
\* header 'Bearer <token>' whose token is the token the client holds when the
\* request is sent, whatever the authentication endpoint answered with.
C11_BearerOnEveryRequest ==
    \A p \in Procs :
        proc[p].pc = "apiWait" =>
            /\ "Authorization" \in proc[p].req.headers
            /\ proc[p].hdr = BearerHeader(proc[p].held)
            /\ proc[p].held \in Tokens

\* 5 * 60 * 1000: the lifetime of a cache entry, counted from its store
FiveMinutes == 5 * 60 * 1000

\* a getProfile call that returned without sending a request
CacheHit(p) ==
    /\ proc[p].op = "getProfile"
    /\ proc[p].pc = "done"
    /\ proc[p].result.kind = "value"
    /\ proc[p].nreq = 0

\* a getProfile call that returned the answer of a request it sent
Fetched(p) ==
    /\ proc[p].op = "getProfile"
    /\ proc[p].pc = "done"
    /\ proc[p].result.kind = "value"
    /\ proc[p].nreq > 0

\* C12: a getProfile call made less than 5 minutes after the last fetch
\* completed sends no request and returns the value that fetch returned; a
\* getProfile call sends requests only when nothing was fetched yet or when it
\* is made 5 minutes or more after the last fetch completed, and when its
\* fetch returns, the cache holds that value with an expiry 5 minutes after
\* the completion.
C12_ProfileCache ==
    \A p \in Callers :
        /\ CacheHit(p) =>
              /\ profileHist # NoFetch
              /\ proc[p].startAt < profileHist.at + FiveMinutes
              /\ proc[p].result = OkValue(profileHist.value)
        /\ (proc[p].op = "getProfile" /\ ~CacheHit(p) /\ ~Fetched(p)) =>
              \/ profileHist = NoFetch
              \/ proc[p].startAt >= profileHist.at + FiveMinutes
        /\ Fetched(p) =>
              /\ profileHist.at >= proc[p].startAt
              /\ proc[p].result = OkValue(profileHist.value)
              /\ profileCache = [profile |-> profileHist.value,
                                 expires |-> profileHist.at + FiveMinutes]

C12_Witness ==
    \E p \in Callers :
        /\ CacheHit(p)
        /\ profileHist.values = Profiles
        /\ profileHist.at >= FiveMinutes
        /\ proc[p].startAt > profileHist.at

TaskOps == {"createTask", "getTask", "updateTask", "moveTask"}

\* C13: a step of a createTask, getTask, updateTask or moveTask call, whether
\* the call succeeds or fails, leaves the profile cache as it is; the cache
\* changes only when a getProfile call, made when there was no entry or at or
\* after the expiry of the entry, stores what it fetched.
C13_WritesKeepCache ==
    [][/\ \A p \in Procs :
            (proc'[p] # proc[p] /\ (proc[p].op \in TaskOps \/ proc'[p].op \in TaskOps))
                => profileCache' = profileCache
       /\ profileCache' # profileCache =>
            \E p \in Procs :
                /\ proc[p].op = "getProfile"
                /\ proc[p].pc = "apiWait"
                /\ proc'[p].pc = "done"
                /\ profileCache = NoCache \/ proc[p].startAt >= profileCache.expires
                /\ profileCache' # NoCache]_vars

C13_Witness ==
    \E p \in Callers :
        /\ CacheValid
        /\ proc[p].op = "createTask"
        /\ proc[p].pc = "done"
        /\ proc[p].attempt = 1
        /\ proc[p].result = HttpError(404)

\* C17: one createTask call sends the same POST /tasks, with no idempotency
\* key, once per attempt: a retryable failure is followed by a re-send until
\* the retries are used up, so a call sends at most 4 requests, the server
\* carries out at most one creation per request - between 1 and 4 when it
\* carried out any - and a call that returned a task made at least one.
C17_DuplicateCreates ==
    \A p \in Procs :
        proc[p].op = "createTask" =>
            /\ proc[p].created <= proc[p].nreq
            /\ proc[p].nreq <= 4
            /\ proc[p].nreq >= 1 =>
                  /\ proc[p].req.method = "POST"
                  /\ proc[p].req.path = <<"tasks">>
                  /\ "Idempotency-Key" \notin proc[p].req.headers
            /\ proc[p].pc = "apiSleep" => proc[p].nreq = proc[p].attempt + 1
            /\ (proc[p].pc = "done" /\ proc[p].result = HttpError(503)) =>
                  proc[p].nreq = 4
            /\ (proc[p].pc = "done" /\ proc[p].result.kind = "value") =>
                  proc[p].created >= 1

C17_Witness ==
    \E p \in Procs :
        /\ proc[p].op = "createTask"
        /\ proc[p].pc = "done"
        /\ proc[p].result.kind = "value"
        /\ proc[p].nreq = 4
        /\ proc[p].created = 4

\* a getProfile call that has ended with an error
FetchFailed(p) ==
    /\ proc[p].op = "getProfile"
    /\ proc[p].pc = "done"
    /\ proc[p].result.kind # "value"

\* C28: no step of a getProfile call other than the return of a successful
\* fetch changes the profile cache, so a call whose fetch failed - with a
\* terminal error, after the last retry, or in authentication - leaves the
\* cache empty if it was empty and otherwise leaves the expired entry of the
\* last successful fetch, value and expiry; what the cache holds, and what a
\* call answered from the cache returns, is always a fetched profile.
C28_FailedFetchKeepsCache ==
    /\ [](/\ profileCache = NoCache <=> profileHist = NoFetch
          /\ profileCache # NoCache =>
                /\ profileCache.profile \in Profiles
                /\ profileCache = [profile |-> profileHist.value,
                                   expires |-> profileHist.at + FiveMinutes]
          /\ \A p \in Callers :
                /\ FetchFailed(p) =>
                      \/ profileCache = NoCache
                      \/ /\ profileCache.expires <= proc[p].startAt
                         /\ profileHist.at < proc[p].startAt
                /\ CacheHit(p) =>
                      \E v \in Profiles : proc[p].result = OkValue(v))
    /\ [][\A p \in Callers :
            (proc[p].op = "getProfile" /\ proc'[p].result.kind # "value")
                => profileCache' = profileCache]_vars

C28_Witness ==
    \E p \in Callers :
        /\ FetchFailed(p)
        /\ proc[p].attempt = maxRetries
        /\ proc[p].result = HttpError(503)
        /\ profileCache # NoCache
        /\ profileCache.expires <= proc[p].startAt

\* C29: every attempt of an operation, the first and each retry, runs the
\* credential check of its own before its request is sent: the check sees
\* the state of the token at that instant, an attempt whose check found the
\* token expired or absent sends nothing until an exchange of its own has
\* replaced the token, and the request is sent with the token held then - the
\* one the check found valid, or the one the exchange stored.
C29_CheckBeforeEveryAttempt ==
    /\ [](\A p \in Callers :
            /\ proc[p].pc \in {"authed", "apiWait"} => proc[p].ensState # "none"
            /\ proc[p].pc = "apiWait" =>
                  /\ proc[p].nreq = proc[p].attempt + 1
                  /\ proc[p].held = accessToken
                  /\ proc[p].ensState = "valid" =>
                        /\ proc[p].ensReqs = 0
                        /\ Truthy(proc[p].held)
                  /\ proc[p].ensState \in {"expired", "unauthenticated"} =>
                        /\ proc[p].ensReqs >= 1
                        /\ authHist.by = p
                        /\ proc[p].held = authHist.token
                        /\ tokenSetAt >= proc[p].startAt
                        /\ tokenExpires = tokenSetAt + FiftyMinutes)
    /\ [][\A p \in Callers :
            /\ (proc[p].pc = "apiSleep" /\ proc'[p].pc # "apiSleep")
                  => /\ proc'[p].pc = "intercept"
                     /\ proc'[p].ensState = "none"
            /\ (proc[p].pc = "intercept" /\ proc'[p] # proc[p])
                  => /\ proc'[p].ensState = ClientState
                     /\ TokenValid <=> (ClientState = "valid")
                     /\ proc'[p].pc = (IF ClientState = "valid" THEN "authed"
                                       ELSE "authWait")
                     /\ proc'[p].nreq = proc[p].nreq]_vars

\* the first attempt was sent with a valid token, the token expired during
\* the backoff wait, and the retry is sent with the token of a new exchange
C29_Witness ==
    \E p \in Callers :
        /\ proc[p].pc = "apiWait"
        /\ proc[p].attempt = 1
        /\ proc[p].ensState = "expired"
        /\ proc[p].nauth = proc[p].ensReqs
        /\ proc[p].held \in Tokens
        /\ tokenSetAt > proc[p].startAt

\* C27: a failed authentication exchange - each failed request of it, and the
\* throw that ends it - leaves the token and its expiry as they were; when the
\* exchange has failed the client is Unauthenticated or Expired as it was
\* when the exchange began; the caller's return and the start of the next
\* operation change neither, and an interceptor that runs in that state
\* starts an exchange again.
C27_FailedExchangeKeepsState ==
    /\ [](\A p \in Callers :
            proc[p].authFailed =>
                /\ ~TokenValid
                /\ ClientState = proc[p].ensState
                /\ ClientState \in {"unauthenticated", "expired"})
    /\ [][\A p \in Callers :
            /\ (proc[p].pc \in {"authWait", "authSleep"} /\ proc'[p].pc # "authed")
                  => /\ accessToken' = accessToken
                     /\ tokenExpires' = tokenExpires
            /\ (proc[p].authFailed \/ proc[p].pc = "idle")
                  => /\ accessToken' = accessToken
                     /\ tokenExpires' = tokenExpires
            /\ (proc[p].pc = "intercept" /\ proc'[p] # proc[p]
                    /\ ClientState \in {"unauthenticated", "expired"})
                  => /\ proc'[p].pc = "authWait"
                     /\ proc'[p].ensReqs = 1]_vars

C27_Witness ==
    \E p \in Callers :
        /\ proc[p].authFailed
        /\ proc[p].ensState = "expired"
        /\ proc[p].ensReqs = 2
        /\ accessToken \in Tokens
        /\ tokenExpires = tokenSetAt + FiftyMinutes

\* C25 (as claimed): when the authentication exchange of an operation fails,
\* the operation ends with that attempt - its own execute does not retry -
\* so an operation sends at most 4 requests to the authentication endpoint
\* and at most 4 requests to the API.
C25_RetriesNotMultiplied ==
    \A p \in Procs :
        /\ proc[p].authFailed =>
              /\ proc[p].pc = "done"
              /\ proc[p].nreq = proc[p].attempt
        /\ proc[p].nreq <= maxRetries + 1
        /\ proc[p].ensReqs <= maxRetries + 1
        /\ proc[p].nauth <= maxRetries + 1

(***************************************************************************)
(* Properties of termination (checked under SpecLive)                      *)
(***************************************************************************)
\* C21: every dispatched operation eventually ends with a result or an
\* error, provided each HTTP attempt finishes; neither execute runs more than
\* 4 attempts or 3 waits; and no step takes an operation in flight back to
\* idle or leaves it without a next step: it ends only by returning or
\* throwing.
C21_Terminates ==
    /\ \A p \in Callers : (proc[p].pc # "idle") ~> (proc[p].pc = "done")
    /\ [](\A p \in Procs :
            /\ proc[p].attempt <= maxRetries
            /\ proc[p].authAttempt <= maxRetries
            /\ proc[p].nreq <= maxRetries + 1
            /\ proc[p].ensReqs <= maxRetries + 1
            /\ proc[p].pc = "apiSleep" => proc[p].attempt < maxRetries
            /\ proc[p].pc = "authSleep" => proc[p].authAttempt < maxRetries
            /\ proc[p].pc = "done" => proc[p].result # NoValue)
    /\ [][\A p \in Procs :
            proc[p].pc \notin {"idle", "done"} => proc'[p].pc # "idle"]_vars

C21_Witness ==
    \E p \in Callers :
        /\ proc[p].pc = "done"
        /\ proc[p].attempt = maxRetries
        /\ proc[p].nreq = maxRetries + 1
        /\ proc[p].result = HttpError(503)
        /\ now = 7000

(***************************************************************************)
(* Properties of concurrent operations (checked under SpecConcurrent)      *)
(***************************************************************************)
\* C14: in every state, with any number of operations in flight, the token
\* the client holds is the token of the one exchange that completed last and
\* its expiry is 50 minutes after that store; and every ensureAuthenticated
\* call made while the credential is Valid returns without a request and
\* leaves the token and the expiry as they are.
C14_OneCredential ==
    /\ [](/\ accessToken = authHist.token
          /\ authHist # NoExchange => tokenExpires = tokenSetAt + FiftyMinutes
          /\ authHist = NoExchange => tokenExpires = 0)
    /\ [][\A p \in Procs :
            (proc[p].pc = "intercept" /\ ClientState = "valid" /\ proc'[p] # proc[p])
                => /\ accessToken' = accessToken
                   /\ tokenExpires' = tokenExpires
                   /\ proc'[p].pc = "authed"
                   /\ proc'[p].ensReqs = 0]_vars

C14_Witness ==
    \E p, q \in Procs :
        /\ p # q
        /\ ClientState = "valid"
        /\ proc[p].ensState = "valid"
        /\ proc[p].pc = "authed"
        /\ proc[q].ensState = "valid"
        /\ proc[q].pc = "apiWait"

\* both callers have found no valid credential and the exchange of each has
\* returned
BothExchangesDone(p, q) ==
    /\ p # q
    /\ proc[p].ensState \in {"unauthenticated", "expired"}
    /\ proc[q].ensState \in {"unauthenticated", "expired"}
    /\ proc[p].pc \in {"authed", "apiWait"}
    /\ proc[q].pc \in {"authed", "apiWait"}

\* C15 (as claimed): when two operations have both found no valid credential
\* and both exchanges have returned, the client holds the token of the
\* exchange that returned last with the expiry of that same exchange, and
\* each of the two operations sends its request with a token held.
C15_ConcurrentFirstCalls ==
    \A p, q \in Procs :
        BothExchangesDone(p, q) =>
            /\ accessToken = authHist.token
            /\ tokenExpires = tokenSetAt + FiftyMinutes
            /\ Truthy(accessToken)
            /\ \A r \in {p, q} :
                 proc[r].pc = "apiWait" =>
                     /\ proc[r].held \in Tokens
                     /\ proc[r].hdr = BearerHeader(proc[r].held)

\* C16: under any interleaving of getProfile calls, the cache is empty or
\* holds the value of the fetch that completed last together with the expiry
\* of that store, 5 minutes after it; and every value a getProfile call
\* returns is the value of a fetch that completed.
C16_CacheNeverTorn ==
    /\ profileCache = NoCache =>  profileHist = NoFetch
    /\ profileCache # NoCache =>
          /\ profileCache = [profile |-> profileHist.value,
                             expires |-> profileHist.at + FiveMinutes]
          /\ profileHist.value \in profileHist.values
    /\ \A p \in Procs :
          (proc[p].op = "getProfile" /\ proc[p].pc = "done"
              /\ proc[p].result.kind = "value")
            => \E v \in profileHist.values : proc[p].result = OkValue(v)

C16_Witness ==
    \E p, q \in Procs :
        /\ p # q
        /\ Fetched(p)
        /\ Fetched(q)
        /\ proc[p].startAt = proc[q].startAt
        /\ proc[p].result # proc[q].result
        /\ proc[p].result # OkValue(profileCache.profile)

(***************************************************************************)
(* SpecTool: the CallToolRequestSchema handler of PyrusMCPServer           *)
(***************************************************************************)
\* String.prototype.toLowerCase, character by character
LowerChar(c) ==
    CASE c = "A" -> "a" [] c = "B" -> "b" [] c = "C" -> "c" [] c = "D" -> "d"
      [] c = "E" -> "e" [] c = "F" -> "f" [] c = "G" -> "g" [] c = "H" -> "h"
      [] c = "I" -> "i" [] c = "J" -> "j" [] c = "K" -> "k" [] c = "L" -> "l"
      [] c = "M" -> "m" [] c = "N" -> "n" [] c = "O" -> "o" [] c = "P" -> "p"
      [] c = "Q" -> "q" [] c = "R" -> "r" [] c = "S" -> "s" [] c = "T" -> "t"
      [] c = "U" -> "u" [] c = "V" -> "v" [] c = "W" -> "w" [] c = "X" -> "x"
      [] c = "Y" -> "y" [] c = "Z" -> "z" [] OTHER -> c

\* the case left as it is
ToLowerCase_Identity(str) == str

ToLowerCase(str) == [i \in 1 .. Len(str) |-> LowerChar(str[i])]

\* String.prototype.includes
Includes(str, sub) ==
    \E i \in 0 .. (Len(str) - Len(sub)) :
        \A j \in 1 .. Len(sub) : str[i + j] = sub[j]

InvalidText ==
    <<"i","n","v","a","l","i","d">>

AuthenticationText ==
    <<"a","u","t","h","e","n","t","i","c","a","t","i","o","n">>

\* 'Authentication failed. Please check your credentials.'
CredentialsMessage ==
    <<"A","u","t","h","e","n","t","i","c","a","t","i","o","n"," ","f","a","i",
      "l","e","d","."," ","P","l","e","a","s","e"," ","c","h","e","c","k"," ",
      "y","o","u","r"," ","c","r","e","d","e","n","t","i","a","l","s",".">>

FailedToExecuteText ==
    <<"F","a","i","l","e","d"," ","t","o"," ","e","x","e","c","u","t","e"," ">>

ToolNameRequiredText ==
    <<"T","o","o","l"," ","n","a","m","e"," ","i","s"," ","r","e","q","u","i",
      "r","e","d">>

LoginRequiredText ==
    <<"P","Y","R","U","S","_","L","O","G","I","N"," ","e","n","v","i","r","o",
      "n","m","e","n","t"," ","v","a","r","i","a","b","l","e"," ","i","s"," ",
      "r","e","q","u","i","r","e","d">>

TokenRequiredText ==
    <<"P","Y","R","U","S","_","A","P","I","_","T","O","K","E","N"," ","e","n",
      "v","i","r","o","n","m","e","n","t"," ","v","a","r","i","a","b","l","e",
      " ","i","s"," ","r","e","q","u","i","r","e","d">>

UnknownToolText ==
    <<"U","n","k","n","o","w","n"," ","t","o","o","l",":"," ">>

\* the characters of a tool name
NameChars(name) ==
    CASE name = "create_task" ->
           <<"c","r","e","a","t","e","_","t","a","s","k">>
      [] name = "get_task" ->
           <<"g","e","t","_","t","a","s","k">>
      [] name = "update_task" ->
           <<"u","p","d","a","t","e","_","t","a","s","k">>
      [] name = "move_task" ->
           <<"m","o","v","e","_","t","a","s","k">>
      [] name = "get_profile" ->
           <<"g","e","t","_","p","r","o","f","i","l","e">>
      [] name = "get_lists" ->
           <<"g","e","t","_","l","i","s","t","s">>
      [] name = "find_list" ->
           <<"f","i","n","d","_","l","i","s","t">>
      [] name = "get_list_tasks" ->
           <<"g","e","t","_","l","i","s","t","_","t","a","s","k","s">>
      [] name = "get_related_tasks" ->
           <<"g","e","t","_","r","e","l","a","t","e","d","_","t","a","s","k","s">>
      [] name = "add_comment" ->
           <<"a","d","d","_","c","o","m","m","e","n","t">>
      [] name = "get_task_comments" ->
           <<"g","e","t","_","t","a","s","k","_","c","o","m","m","e","n","t","s">>
      [] name = "delete_task" ->
           <<"d","e","l","e","t","e","_","t","a","s","k">>
      [] OTHER -> <<>>

\* the client operation each tool of the switch awaits
ToolOp(name) ==
    CASE name = "create_task" -> "createTask"
      [] name = "get_task" -> "getTask"
      [] name = "update_task" -> "updateTask"
      [] name = "move_task" -> "moveTask"
      [] name = "get_profile" -> "getProfile"
      [] name = "get_lists" -> "getLists"
      [] name = "find_list" -> "findList"
      [] name = "get_list_tasks" -> "getListTasks"
      [] name = "get_related_tasks" -> "getRelatedTasks"
      [] name = "add_comment" -> "addComment"
      [] name = "get_task_comments" -> "getTaskComments"

KnownTools ==
    {"create_task", "get_task", "update_task", "move_task",
     "get_profile", "get_lists", "find_list", "get_list_tasks",
     "get_related_tasks", "add_comment", "get_task_comments"}

\* the tools of the switch, a name it does not know, and no name
ToolNames == KnownTools \cup {"delete_task", ""}

McpError(code, message) ==
    [kind |-> "McpError", code |-> code, status |-> NoStatus, message |-> message]

\* error instanceof Error
InstanceOfError(error) == error.kind \in {"Error", "AxiosError", "TypeError", "McpError"}

\* the handler's catch block: the McpError it throws for what it caught
MapError(error, name) ==
    IF error.kind = "McpError"
    THEN McpError(error.code, error.message)
    ELSE IF InstanceOfError(error) /\ Includes(ToLowerCase(error.message), InvalidText)
    THEN McpError("InvalidParams", error.message)
    ELSE IF InstanceOfError(error)
            /\ Includes(ToLowerCase(error.message), AuthenticationText)
    THEN McpError("InvalidRequest", CredentialsMessage)
    ELSE McpError("InternalError", FailedToExecuteText \o NameChars(name))

\* the AxiosError for a response the HTTP parser of Node rejects:
\* 'Parse Error: Invalid header value char'
ParseErrorText ==
    <<"P","a","r","s","e"," ","E","r","r","o","r",":"," ","I","n","v","a","l",
      "i","d"," ","h","e","a","d","e","r"," ","v","a","l","u","e"," ","c","h",
      "a","r">>

ParseError ==
    [kind |-> "AxiosError", code |-> "HPE_INVALID_HEADER_TOKEN",
     status |-> NoStatus, message |-> ParseErrorText]

\* what a client operation may throw at the handler: the authentication
\* error, an upstream error after the executor gave up, the executor's TypeError
ClientThrown ==
    {AuthFailedError, TypeErrorValue, ParseError}
        \cup {HttpError(s) : s \in ClientStatuses \cup RetryStatuses}
        \cup {NetError(c) : c \in TransportCodes}

\* initializePyrusClient: what it throws, if anything
InitializeThrows ==
    IF ~envLogin THEN McpError("InvalidRequest", LoginRequiredText)
    ELSE IF ~envToken THEN McpError("InvalidRequest", TokenRequiredText)
    ELSE NoValue

\* a server that builds its client anew for every call
NeedsClient_Always == TRUE

\* getPyrusClient: if (!this.pyrusClient) this.initializePyrusClient()
NeedsClient == pyrusClient = "null"

\* a tool call arrives: the handler runs to the await of the client operation,
\* or to the throw of its catch block
ToolCall ==
    /\ tpc = "idle"
    /\ \E name \in ToolNames :
         /\ tname' = name
         /\ IF name = ""
            THEN /\ tout' = MapError(McpError("InvalidParams", ToolNameRequiredText), name)
                 /\ tpc' = "threw"
                 /\ UNCHANGED <<pyrusClient, constructed>>
            ELSE IF NeedsClient /\ InitializeThrows # NoValue
            THEN /\ tout' = MapError(InitializeThrows, name)
                 /\ tpc' = "threw"
                 /\ UNCHANGED <<pyrusClient, constructed>>
            ELSE /\ pyrusClient' = "client"
                 /\ constructed' = IF NeedsClient THEN constructed + 1
                                   ELSE constructed
                 /\ IF name \in KnownTools
                    THEN tpc' = "awaitClient" /\ UNCHANGED tout
                    ELSE /\ tout' = MapError(McpError("MethodNotFound",
                                                UnknownToolText \o NameChars(name)), name)
                         /\ tpc' = "threw"
    /\ UNCHANGED <<now, xvars, cvars, uvars, envLogin, envToken, terr>>

\* the client operation resolves: the handler returns its text content;
\* get_task first awaits getTaskLists
ToolResolve ==
    /\ tpc = "awaitClient"
    /\ IF tname = "get_task"
       THEN tpc' = "awaitTaskLists" /\ UNCHANGED tout
       ELSE tpc' = "returned" /\ tout' = OkValue(ToolOp(tname))
    /\ UNCHANGED <<now, xvars, cvars, uvars, pyrusClient, constructed, envLogin, envToken,
                   tname, terr>>

\* getTaskLists resolves or rejects: get_task returns the task either way
ToolTaskLists ==
    /\ tpc = "awaitTaskLists"
    /\ \E e \in ClientThrown \cup {NoValue} : terr' = e
    /\ tpc' = "returned"
    /\ tout' = OkValue(ToolOp(tname))
    /\ UNCHANGED <<now, xvars, cvars, uvars, pyrusClient, constructed, envLogin, envToken,
                   tname>>

\* the client operation rejects: the catch block
ToolReject ==
    /\ tpc = "awaitClient"
    /\ \E e \in ClientThrown :
         /\ terr' = e
         /\ tout' = MapError(e, tname)
    /\ tpc' = "threw"
    /\ UNCHANGED <<now, xvars, cvars, uvars, pyrusClient, constructed, envLogin, envToken,
                   tname>>

\* the response is sent; the server waits for the next call
ToolDone ==
    /\ tpc \in {"returned", "threw"}
    /\ tpc' = "idle"
    /\ tname' = "none"
    /\ terr' = NoValue
    /\ tout' = NoValue
    /\ UNCHANGED <<now, xvars, cvars, uvars, pyrusClient, constructed, envLogin, envToken>>

TInit ==
    /\ now = 0 /\ XInitial /\ CInitial /\ TInitial /\ UInitial
    /\ envLogin \in BOOLEAN
    /\ envToken \in BOOLEAN

\* between two calls the host of the server sets or removes PYRUS_LOGIN and
\* PYRUS_API_TOKEN in process.env
EnvChange ==
    /\ tpc = "idle"
    /\ envLogin' \in BOOLEAN
    /\ envToken' \in BOOLEAN
    /\ UNCHANGED <<now, xvars, cvars, uvars, pyrusClient, constructed, tpc, tname, terr,
                   tout>>

TNext ==
    ToolCall \/ ToolResolve \/ ToolTaskLists \/ ToolReject \/ ToolDone \/ EnvChange

SpecTool == TInit /\ [][TNext]_vars

\* C10 (as claimed): when a tool call fails because the client operation threw
\* the authentication error, the McpError given to the caller has code
\* InvalidRequest and the credentials message, not InternalError and
\* 'Failed to execute <tool>'.
C10_CredentialsError ==
    (tpc = "threw" /\ terr = AuthFailedError) =>
        tout = McpError("InvalidRequest", CredentialsMessage)

\* the messages of the McpErrors the server raises itself
ServerMessages(name) ==
    {ToolNameRequiredText, LoginRequiredText, TokenRequiredText,
     UnknownToolText \o NameChars(name)}

ErrorCodes == {"InvalidParams", "InvalidRequest", "MethodNotFound", "InternalError"}

\* C22 (as claimed): a tool call that fails ends in an McpError with a code
\* and a message, and the message is one the server wrote itself - that of
\* an McpError it raised, the credentials message, or 'Failed to execute
\* <tool>' - never the text of the error the client operation threw.
C22_SafeMessages ==
    tpc = "threw" =>
        /\ tout.kind = "McpError"
        /\ tout.code \in ErrorCodes
        /\ tout.message \in ServerMessages(tname)
              \cup {CredentialsMessage, FailedToExecuteText \o NameChars(tname)}
        /\ terr # NoValue => tout.message # terr.message

\* a step in which a tool call arrives
CallArrives == tpc = "idle" /\ tpc' # "idle"

\* C30 (as claimed): at most one PyrusClient is ever constructed; the first
\* call made with both variables set constructs it and every later call
\* reuses it; a call made while either variable is missing fails with an
\* InvalidRequest error, constructs no client and leaves the server as it was.
C30_OneClientLiteral ==
    /\ [](constructed <= 1 /\ (pyrusClient = "client" <=> constructed = 1))
    /\ [][CallArrives =>
            /\ (EnvSet /\ constructed = 0) => constructed' = 1
            /\ constructed = 1 =>
                  constructed' = 1 /\ pyrusClient' = pyrusClient
            /\ ~EnvSet =>
                  /\ tpc' = "threw"
                  /\ tout'.code = "InvalidRequest"
                  /\ constructed' = constructed
                  /\ pyrusClient' = pyrusClient]_vars

\* C30 (amended): at most one PyrusClient is ever constructed; a call that
\* names a tool and arrives when no client exists constructs it if both
\* variables are set, and otherwise fails with the InvalidRequest error that
\* names the missing variable, constructs nothing and leaves the server
\* without a client, so that a later call constructs one; once the client
\* exists every call reuses it, whether or not the variables are still set;
\* and a call without a tool name fails with InvalidParams before the client
\* is looked up.
C30_OneClient ==
    /\ [](constructed <= 1 /\ (pyrusClient = "client" <=> constructed = 1))
    /\ [][CallArrives =>
            /\ (tname' # "" /\ constructed = 0 /\ EnvSet) =>
                  /\ constructed' = 1
                  /\ pyrusClient' = "client"
            /\ (tname' # "" /\ constructed = 0 /\ ~EnvSet) =>
                  /\ tpc' = "threw"
                  /\ tout' = McpError("InvalidRequest",
                                      IF ~envLogin THEN LoginRequiredText
                                      ELSE TokenRequiredText)
                  /\ constructed' = 0
                  /\ pyrusClient' = "null"
            /\ constructed = 1 =>
                  /\ constructed' = 1
                  /\ pyrusClient' = "client"
                  /\ (tname' \in KnownTools) => tpc' = "awaitClient"
            /\ tname' = "" =>
                  /\ tpc' = "threw"
                  /\ tout'.code = "InvalidParams"
                  /\ constructed' = constructed
                  /\ pyrusClient' = pyrusClient]_vars

\* a call served by the client of an earlier call after a variable was removed
C30_Witness ==
    /\ constructed = 1
    /\ pyrusClient = "client"
    /\ ~EnvSet
    /\ tpc = "awaitClient"

(***************************************************************************)
(* SpecOps: one call of a client operation on given inputs - the request   *)
(* it builds and the value it derives from the answer.                     *)
(***************************************************************************)
\* the names of the lists and the arguments of findList, as characters:
\* 'Task Management', 'Project Planning', 'TASKS'
TaskManagementName ==
    <<"T","a","s","k"," ","M","a","n","a","g","e","m","e","n","t">>

ProjectPlanningName ==
    <<"P","r","o","j","e","c","t"," ","P","l","a","n","n","i","n","g">>

TasksUpperName == <<"T","A","S","K","S">>

ListNames == {TaskManagementName, ProjectPlanningName, TasksUpperName}

\* 'task', 'zzz', 'PLAN' and ''
TaskQuery == <<"t","a","s","k">>

ZzzQuery == <<"z","z","z">>

PlanQuery == <<"P","L","A","N">>

Queries == {TaskQuery, ZzzQuery, PlanQuery, <<>>}

MaxCatalog == 2

\* the catalogs GET /lists may answer with: up to MaxCatalog lists
Catalogs ==
    UNION {{[i \in 1 .. n |-> [id |-> i, name |-> f[i]]] : f \in [1 .. n -> ListNames]} :
             n \in 0 .. MaxCatalog}

\* the tasks GET /tasks/{id} may answer with: each collection absent, empty
\* or with two entries
FetchedTasks ==
    {[id |-> 1, related_tasks |-> r, comments |-> c] :
        r \in {Absent, Some(<<>>), Some(<<2, 3>>)},
        c \in {Absent, Some(<<>>), Some(<<"Comment 1", "Comment 2">>)}}

Arguments ==
    {[name |-> n, task_id |-> t, list_id |-> 200, responsible |-> r] :
        n \in Queries, t \in {1, 2}, r \in {Absent, Some(67890)}}

\* the JSON body of a POST /tasks/{id}/comments: the fields of
\* UpdateTaskRequest, and list_id
EmptyBody ==
    [text |-> Absent, action |-> Absent, responsible |-> Absent,
     due_date |-> Absent, participants |-> Absent, list_ids |-> Absent,
     added_list_ids |-> Absent, removed_list_ids |-> Absent, list_id |-> Absent]

\* the updateData a caller may pass to updateTask
UpdateDatas ==
    {[EmptyBody EXCEPT !.text = Some("done")],
     [EmptyBody EXCEPT !.added_list_ids = Some(<<200>>)],
     [EmptyBody EXCEPT !.added_list_ids = Some(<<200>>), !.responsible = Some(67890)],
     [EmptyBody EXCEPT !.action = Some("complete")]}

\* updateTask posts updateData as it is
UpdateTaskRequest(taskId, updateData) ==
    Request(RequestLine("updateTask", taskId).method,
            RequestLine("updateTask", taskId).path, Some(updateData))

\* moveTask posts { action: 'move', list_id, responsible }
MoveTaskRequest(taskId, moveData) ==
    Request(RequestLine("moveTask", taskId).method,
            RequestLine("moveTask", taskId).path,
            Some([EmptyBody EXCEPT !.action = Some("move"),
                                   !.list_id = Some(moveData.list_id),
                                   !.responsible = moveData.responsible]))

\* getTask: GET /tasks/{id}
GetTaskRequest(taskId) ==
    Request(RequestLine("getTask", taskId).method,
            RequestLine("getTask", taskId).path, Absent)

\* findList: the first list of the catalog whose name, in lower case,
\* includes the argument in lower case; null when there is none
RECURSIVE FindList(_, _)
FindList(catalog, name) ==
    IF catalog = <<>> THEN Ret("null", Absent)
    ELSE IF Includes(ToLowerCase(Head(catalog).name), ToLowerCase(name))
    THEN Ret("list", Some(Head(catalog)))
    ELSE FindList(Tail(catalog), name)

\* getRelatedTasks and getTaskComments: the collection of the fetched task,
\* or an empty array
Projection(field) == Ret("array", IF field = Absent THEN <<>> ELSE field[1])

FindListCall ==
    /\ ucall = "none"
    /\ ucall' = "findList"
    /\ ureq' = Request("GET", <<"lists">>, Absent)
    /\ uret' = FindList(lists, args.name)
    /\ UNCHANGED <<now, xvars, cvars, tvars, lists, task, args, kvars>>

GetRelatedTasksCall ==
    /\ ucall = "none"
    /\ ucall' = "getRelatedTasks"
    /\ ureq' = GetTaskRequest(args.task_id)
    /\ uret' = Projection(task.related_tasks)
    /\ UNCHANGED <<now, xvars, cvars, tvars, lists, task, args, kvars>>

GetTaskCommentsCall ==
    /\ ucall = "none"
    /\ ucall' = "getTaskComments"
    /\ ureq' = GetTaskRequest(args.task_id)
    /\ uret' = Projection(task.comments)
    /\ UNCHANGED <<now, xvars, cvars, tvars, lists, task, args, kvars>>

MoveTaskCall ==
    /\ ucall = "none"
    /\ ucall' = "moveTask"
    /\ ureq' = MoveTaskRequest(args.task_id,
                               [list_id |-> args.list_id,
                                responsible |-> args.responsible])
    /\ uret' = Ret("task", Some(task.id))
    /\ UNCHANGED <<now, xvars, cvars, tvars, lists, task, args, kvars>>

UpdateTaskCall ==
    /\ ucall = "none"
    /\ ucall' = "updateTask"
    /\ \E updateData \in UpdateDatas :
         ureq' = UpdateTaskRequest(args.task_id, updateData)
    /\ uret' = Ret("task", Some(task.id))
    /\ UNCHANGED <<now, xvars, cvars, tvars, lists, task, args, kvars>>

\* the configurations a client may be constructed with: each option absent,
\* '' or set
CustomDomain == <<"custom.com">>

CustomBaseUrl == <<"https://custom-api.com/v4">>

Configs ==
    {[domain |-> d, baseUrl |-> b] :
        d \in {Absent, Some(<<>>), Some(DefaultDomain), Some(CustomDomain)},
        b \in {Absent, Some(<<>>), Some(CustomBaseUrl)}}

\* new PyrusClient(cfg)
ConstructCall ==
    /\ ucall = "none"
    /\ ucall' = "constructor"
    /\ \E cfg \in Configs :
         /\ config' = cfg
         /\ baseUrl' = BaseUrl(cfg)
         /\ authUrl' = AuthUrl(cfg)
    /\ UNCHANGED <<now, xvars, cvars, tvars, lists, task, args, ureq, uret, level,
                   logged, emitted>>

(***************************************************************************)
(* Logger (utilities.ts).  The data argument is a JSON value: a record of  *)
(* its kind and its content.                                               *)
(***************************************************************************)
JNull == [kind |-> "null", value |-> <<>>]

JString(str) == [kind |-> "string", value |-> str]

JNumber(n) == [kind |-> "number", value |-> n]

JArray(items) == [kind |-> "array", value |-> items]

\* an object is the sequence of its entries, in insertion order
JObject(entries) == [kind |-> "object", value |-> entries]

Entry(key, val) == [key |-> key, val |-> val]

\* an instance of Error, with its name and its message
JError(name, message) == [kind |-> "error", value |-> <<name, message>>]

\* new Set(['password', 'token', 'key', 'secret', 'auth', 'security_key'])
sensitiveKeys ==
    {<<"p","a","s","s","w","o","r","d">>, <<"t","o","k","e","n">>,
     <<"k","e","y">>, <<"s","e","c","r","e","t">>, <<"a","u","t","h">>,
     <<"s","e","c","u","r","i","t","y","_","k","e","y">>}

\* Array.from(this.sensitiveKeys).some(s => key.toLowerCase().includes(s))
IsSensitive(key) == \E sensitive \in sensitiveKeys : Includes(ToLowerCase(key), sensitive)

Stars == <<"*","*","*">>

\* value.length > 6 ? `${value.substring(0, 3)}***` : '***'
Redacted(str) == IF Len(str) > 6 THEN SubSeq(str, 1, 3) \o Stars ELSE Stars

\* `${data.substring(0, 100)}...[${data.length} chars]`
Truncated(str) ==
    SubSeq(str, 1, 100) \o <<".",".",".","[">> \o Digits(Len(str))
        \o <<" ","c","h","a","r","s","]">>

NameKey == <<"n","a","m","e">>

MessageKey == <<"m","e","s","s","a","g","e">>

\* Logger.sanitize
RECURSIVE sanitize(_)
sanitize(data) ==
    CASE data.kind = "string" ->
           IF Len(data.value) > 1000 THEN JString(Truncated(data.value)) ELSE data
      [] data.kind = "error" ->
           JObject(<<Entry(NameKey, JString(data.value[1])),
                     Entry(MessageKey, JString(data.value[2]))>>)
      [] data.kind = "array" ->
           JArray([i \in 1 .. Len(data.value) |-> sanitize(data.value[i])])
      [] data.kind = "object" ->
           JObject([i \in 1 .. Len(data.value) |->
                      LET key == data.value[i].key
                          value == data.value[i].val IN
                      IF IsSensitive(key) /\ value.kind = "string"
                            /\ Len(value.value) > 0
                      THEN Entry(key, JString(Redacted(value.value)))
                      ELSE Entry(key, sanitize(value))])
      [] OTHER -> data

\* JSON.stringify, without escapes
Quoted(str) == <<"\"">> \o str \o <<"\"">>

RECURSIVE Stringify(_)
RECURSIVE StringifyItems(_)
RECURSIVE StringifyEntries(_)
Stringify(data) ==
    CASE data.kind = "string" -> Quoted(data.value)
      [] data.kind = "number" -> Digits(data.value)
      [] data.kind = "array" -> <<"[">> \o StringifyItems(data.value) \o <<"]">>
      [] data.kind = "object" -> <<"{">> \o StringifyEntries(data.value) \o <<"}">>
      [] data.kind = "error" -> <<"{", "}">>
      [] OTHER -> <<"n","u","l","l">>

StringifyItems(items) ==
    IF Len(items) = 0 THEN <<>>
    ELSE Stringify(items[1])
           \o (IF Len(items) > 1 THEN <<",">> ELSE <<>>)
           \o StringifyItems(SubSeq(items, 2, Len(items)))

StringifyEntries(entries) ==
    IF Len(entries) = 0 THEN <<>>
    ELSE Quoted(entries[1].key) \o <<":">> \o Stringify(entries[1].val)
           \o (IF Len(entries) > 1 THEN <<",">> ELSE <<>>)
           \o StringifyEntries(SubSeq(entries, 2, Len(entries)))

\* the truthiness of the data argument: undefined, null, '' and 0 are falsy
TruthyData(data) ==
    /\ data # Absent
    /\ data[1].kind # "null"
    /\ data[1].kind = "string" => data[1].value # <<>>
    /\ data[1].kind = "number" => data[1].value # 0

\* Logger.log: nothing when the level is above the logger's; otherwise the
\* line, without its timestamp
Log(configured, lv, message, data) ==
    IF lv > configured THEN NoLine
    ELSE [level |-> LevelNames[lv + 1], message |-> message,
          data |-> IF TruthyData(data)
                   THEN <<" ">> \o Stringify(sanitize(data[1]))
                   ELSE <<>>]

\* the values of the test 'should sanitize sensitive data', a value of 6
\* characters, and a number
Secret123 == <<"s","e","c","r","e","t","1","2","3">>

TestUser == <<"t","e","s","t","u","s","e","r">>

ShortValue == <<"a","b","c","1","2","3">>

PasswordKey == <<"p","a","s","s","w","o","r","d">>

UsernameKey == <<"u","s","e","r","n","a","m","e">>

ApiTokenKey == <<"a","p","i","T","o","k","e","n">>

LogKeys == {PasswordKey, UsernameKey, ApiTokenKey}

LogLeaves ==
    {JString(Secret123), JString(TestUser), JString(ShortValue), JString(<<>>),
     JNumber(12345678), JNull}

\* { password: 'secret123', username: 'testuser' }
UserData ==
    JObject(<<Entry(PasswordKey, JString(Secret123)),
              Entry(UsernameKey, JString(TestUser))>>)

\* objects of one entry, arrays of one item, and the same one level deeper
FlatData ==
    {JObject(<<Entry(k, v)>>) : k \in LogKeys, v \in LogLeaves}
        \cup {JArray(<<v>>) : v \in LogLeaves}
        \cup {UserData, JError(<<"E","r","r","o","r">>, Secret123)}

LogDatas ==
    LogLeaves \cup FlatData
        \cup {JObject(<<Entry(k, v)>>) : k \in LogKeys, v \in FlatData}
        \cup {JArray(<<v>>) : v \in FlatData}

\* a call of logger.error, warn, info or debug('User data', data) on a Logger
\* constructed with LOG_LEVEL at one of the levels
LogCall ==
    /\ ucall = "none"
    /\ ucall' = "log"
    /\ \E configured \in 0 .. 3, lv \in 0 .. 3,
          data \in {Absent} \cup {Some(d) : d \in LogDatas} :
         /\ level' = configured
         /\ logged' = [level |-> lv, message |-> "User data", data |-> data]
         /\ emitted' = Log(configured, lv, "User data", data)
    /\ UNCHANGED <<now, xvars, cvars, tvars, lists, task, args, ureq, uret, config,
                   baseUrl, authUrl>>

OInit ==
    /\ now = 0 /\ XInitial /\ CInitial /\ TInitial /\ EnvSet /\ KInitial
    /\ lists \in Catalogs
    /\ task \in FetchedTasks
    /\ args \in Arguments
    /\ ucall = "none"
    /\ ureq = Request("none", <<>>, Absent)
    /\ uret = Ret("none", Absent)

ONext ==
    \/ FindListCall
    \/ GetRelatedTasksCall
    \/ GetTaskCommentsCall
    \/ MoveTaskCall
    \/ UpdateTaskCall

SpecOps == OInit /\ [][ONext]_vars

(***************************************************************************)
(* SpecSetup: the construction of a client from a configuration, and one   *)
(* call of a method of the Logger.                                         *)
(***************************************************************************)
SNext == ConstructCall \/ LogCall

SpecSetup == Init /\ [][SNext]_vars

\* two characters that are the same letter, whatever their case
UpperLetters ==
    <<"A","B","C","D","E","F","G","H","I","J","K","L","M",
      "N","O","P","Q","R","S","T","U","V","W","X","Y","Z">>

LowerLetters ==
    <<"a","b","c","d","e","f","g","h","i","j","k","l","m",
      "n","o","p","q","r","s","t","u","v","w","x","y","z">>

SameLetter(c, d) ==
    \/ c = d
    \/ \E i \in 1 .. 26 : {c, d} = {UpperLetters[i], LowerLetters[i]}

ContainsIgnoringCase(str, sub) ==
    \E i \in 0 .. (Len(str) - Len(sub)) :
        \A j \in 1 .. Len(sub) : SameLetter(str[i + j], sub[j])

\* the positions of the lists whose name contains the argument
Matches == {i \in 1 .. Len(lists) : ContainsIgnoringCase(lists[i].name, args.name)}

\* C18: findList returns the list at the first position of the catalog whose
\* name contains the argument, letters compared without regard to case, and
\* returns null - never an error - when no list matches, the empty catalog
\* included; 'task' over [Task Management, Project Planning] finds Task
\* Management.
C18_FindList ==
    ucall = "findList" =>
        /\ uret.kind \in {"null", "list"}
        /\ Matches = {} => uret = Ret("null", Absent)
        /\ Matches # {} =>
             \E i \in Matches :
                 /\ \A j \in Matches : i <= j
                 /\ uret = Ret("list", Some(lists[i]))
        /\ lists = <<>> => uret = Ret("null", Absent)
        /\ (/\ lists = <<[id |-> 1, name |-> TaskManagementName],
                         [id |-> 2, name |-> ProjectPlanningName]>>
            /\ args.name = TaskQuery)
             => uret = Ret("list", Some([id |-> 1, name |-> TaskManagementName]))

C18_Witness ==
    /\ ucall = "findList"
    /\ args.name = TaskQuery
    /\ lists = <<[id |-> 1, name |-> TasksUpperName],
                 [id |-> 2, name |-> TaskManagementName]>>
    /\ Matches = {1, 2}
    /\ uret = Ret("list", Some([id |-> 1, name |-> TasksUpperName]))

\* C19: getRelatedTasks and getTaskComments send GET /tasks/{id} for the id
\* given and return the related_tasks, respectively the comments, of the task
\* in the answer; when the task has no such field they return an empty array,
\* not an error.
C19_Projections ==
    /\ ucall = "getRelatedTasks" =>
         /\ ureq = Request("GET", <<"tasks", args.task_id>>, Absent)
         /\ uret.kind = "array"
         /\ task.related_tasks = Absent => uret.value = <<>>
         /\ task.related_tasks # Absent => Some(uret.value) = task.related_tasks
    /\ ucall = "getTaskComments" =>
         /\ ureq = Request("GET", <<"tasks", args.task_id>>, Absent)
         /\ uret.kind = "array"
         /\ task.comments = Absent => uret.value = <<>>
         /\ task.comments # Absent => Some(uret.value) = task.comments

C19_Witness ==
    /\ ucall = "getRelatedTasks"
    /\ args.task_id = 2
    /\ task.related_tasks = Absent
    /\ task.comments # Absent
    /\ uret = Ret("array", <<>>)

\* the update that adds the task to the target list, with the new
\* responsible when one is given
AddToList(moveData) ==
    [EmptyBody EXCEPT !.added_list_ids = Some(<<moveData.list_id>>),
                      !.responsible = moveData.responsible]

\* C20 (as claimed): the request moveTask sends is the request updateTask
\* sends for the same task and the update that adds the task to the target
\* list, with the new responsible when one is given.
C20_MoveIsUpdate ==
    ucall = "moveTask" =>
        ureq = UpdateTaskRequest(args.task_id,
                                 AddToList([list_id |-> args.list_id,
                                            responsible |-> args.responsible]))

\* an option of the configuration that is given: set, and not ''
Given(opt) == opt # Absent /\ opt # Some(<<>>)

\* C24: the client's base URL is the baseUrl of the configuration when one is
\* given, and otherwise https://api.<domain>/v4, where the domain is the one
\* configured or pyrus.com; the authentication endpoint is
\* https://accounts.<domain>/api/v4/auth for that domain, whatever the
\* baseUrl.
C24_Urls ==
    ucall = "constructor" =>
        LET domain == IF Given(config.domain) THEN config.domain[1]
                      ELSE <<"pyrus.com">> IN
        /\ Given(config.baseUrl) => baseUrl = config.baseUrl[1]
        /\ ~Given(config.baseUrl) =>
              baseUrl = <<"https://api.">> \o domain \o <<"/v4">>
        /\ authUrl = <<"https://accounts.">> \o domain \o <<"/api/v4/auth">>
        /\ config = [domain |-> Some(<<"custom.com">>), baseUrl |-> Absent] =>
              baseUrl = <<"https://api.", "custom.com", "/v4">>
        /\ config = [domain |-> Absent, baseUrl |-> Absent] =>
              /\ baseUrl = <<"https://api.", "pyrus.com", "/v4">>
              /\ authUrl = <<"https://accounts.", "pyrus.com", "/api/v4/auth">>

C24_Witness ==
    /\ ucall = "constructor"
    /\ config = [domain |-> Some(CustomDomain), baseUrl |-> Some(CustomBaseUrl)]
    /\ baseUrl = CustomBaseUrl
    /\ authUrl = <<"https://accounts.", "custom.com", "/api/v4/auth">>

\* a key whose name contains one of the secret words, whatever the case
SecretWords ==
    {<<"p","a","s","s","w","o","r","d">>, <<"t","o","k","e","n">>,
     <<"k","e","y">>, <<"s","e","c","r","e","t">>, <<"a","u","t","h">>,
     <<"s","e","c","u","r","i","t","y","_","k","e","y">>}

SecretKey(key) == \E word \in SecretWords : ContainsIgnoringCase(key, word)

\* the entries of the objects of a value, at any depth
RECURSIVE EntriesOf(_)
EntriesOf(data) ==
    CASE data.kind = "object" ->
           UNION {{data.value[i]} \cup EntriesOf(data.value[i].val) :
                    i \in 1 .. Len(data.value)}
      [] data.kind = "array" ->
           UNION {EntriesOf(data.value[i]) : i \in 1 .. Len(data.value)}
      [] OTHER -> {}

\* the entries that are not inside the value of a secret key
RECURSIVE OpenEntriesOf(_)
OpenEntriesOf(data) ==
    CASE data.kind = "object" ->
           UNION {{data.value[i]} \cup
                    (IF SecretKey(data.value[i].key) THEN {}
                     ELSE OpenEntriesOf(data.value[i].val)) :
                    i \in 1 .. Len(data.value)}
      [] data.kind = "array" ->
           UNION {OpenEntriesOf(data.value[i]) : i \in 1 .. Len(data.value)}
      [] OTHER -> {}

\* what a value stored under a key says: the characters of a string, the
\* digits of a number, and the same for the items of an array; the entries
\* of an object are judged by their own keys
RECURSIVE TextsOf(_)
TextsOf(value) ==
    CASE value.kind = "string" -> {value.value} \ {<<>>}
      [] value.kind = "number" -> {Digits(value.value)}
      [] value.kind = "array" ->
           UNION {TextsOf(value.value[i]) : i \in 1 .. Len(value.value)}
      [] OTHER -> {}

\* C23 (as claimed): in the line a call of the logger emits, no value stored
\* at any depth of the data under a key whose name contains password, token,
\* key, secret, auth or security_key, in any case, appears in full: a string
\* is replaced by at most its first 3 characters followed by '***'; the
\* string under a key such as username is emitted unchanged.
C23_SecretsRedacted ==
    (ucall = "log" /\ emitted # NoLine /\ TruthyData(logged.data)) =>
        /\ \A e \in EntriesOf(logged.data[1]) :
             SecretKey(e.key) =>
                 /\ \A text \in TextsOf(e.val) : ~Includes(emitted.data, text)
                 /\ (e.val.kind = "string" /\ e.val.value # <<>>) =>
                       \/ Includes(emitted.data,
                                   Quoted(e.key) \o <<":">> \o Quoted(Stars))
                       \/ Includes(emitted.data,
                                   Quoted(e.key) \o <<":">>
                                     \o Quoted(SubSeq(e.val.value, 1, 3) \o Stars))
        /\ \A e \in OpenEntriesOf(logged.data[1]) :
             (~SecretKey(e.key) /\ e.val.kind = "string") =>
                 Includes(emitted.data,
                          Quoted(e.key) \o <<":">> \o Quoted(e.val.value))

====
